---- MODULE Spec2Model ----
(***************************************************************************)
(* The ticket dashboard of the CRM console (DashboardHome.tsx): the        *)
(* DonutChart component that turns a mapping of status counts into arc     *)
(* segments, and the DashboardHome component that fetches the counts once  *)
(* on mount, renders the status cards and the chart, and navigates on a    *)
(* click.  The company page (ShowCompanyPage) and the user page            *)
(* (ShowUserPage) follow: a list fetched on mount and on refresh, modals   *)
(* to edit, view and delete a record, and the requests they send.  One     *)
(* page is mounted at a time; loading and response are the state of the    *)
(* page that is mounted.                                                   *)
(*                                                                         *)
(* Numbers.  The code computes with IEEE doubles.  The model computes the  *)
(* same expressions with exact rationals, a rational being a record        *)
(* [n, d] in lowest terms with d > 0.  Lengths on the circle are          *)
(* multiples of pi: circumference = 2 * Math.PI * radius is modelled by    *)
(* its coefficient 2 * radius.                                             *)
(*                                                                         *)
(* Objects.  A JavaScript object is the sequence of its own properties    *)
(* <<key, value>> in insertion order, which is the order Object.values     *)
(* walks.  A key that is absent reads as undefined.                        *)
(***************************************************************************)
EXTENDS Integers, Sequences, FiniteSets, TLC

VARIABLES
    data,              \* DonutChart: the data prop of the mounted chart
    chart,             \* DonutChart: what its last render returned
    tooltip,           \* DonutChart: useState tooltip
    ticketStatusData,  \* DashboardHome: useState ticketStatusData
    loading,           \* useState loading of the mounted page
    fetch,             \* the mount effect and its request: "initial", "inflight", "settled"
    requests,          \* number of ticket-status-count requests issued
    toasts,            \* number of toast.error calls
    hasCallback,       \* whether the onNavigateToTickets prop is provided
    navCount,          \* number of navigate() calls
    lastNav,           \* the argument of the last navigate() call
    cbCount,           \* number of onNavigateToTickets() calls
    lastCb,            \* the argument of the last onNavigateToTickets() call
    event,             \* the last DOM event dispatched: [type, status]
    response,          \* the answer the last step delivered to the page, or <<>>
    page,              \* the page that is mounted
    companies,         \* ShowCompanyPage: useState companies
    selectedCompany,   \* ShowCompanyPage: useState selectedCompany, <<>> for null
    editModal,         \* ShowCompanyPage: useState editModal
    users,             \* ShowUserPage: useState users
    selectedUser,      \* ShowUserPage: useState selectedUser, <<>> for null
    viewModal,         \* ShowUserPage: useState viewModal
    deleteModal,       \* useState deleteModal of the company or user page
    userData,          \* useState userData of the company or user page, <<>> for null
    inflight,          \* the requests of the page that are not answered yet
    issued,            \* number of requests the page has issued
    clickedUser,       \* ShowUserPage: the row whose delete button opened the
                       \* delete modal that is open, <<>> when it is closed
    latestList         \* ShowCompanyPage: the list request issued last among
                       \* those answered with code 1, with its payload less the
                       \* deletions confirmed since; <<>> before the first

vars == <<data, chart, tooltip, ticketStatusData, loading, fetch, requests,
          toasts, hasCallback, navCount, lastNav, cbCount, lastCb, event,
          response, page, companies, selectedCompany, editModal, users,
          selectedUser, viewModal, deleteModal, userData, inflight, issued,
          clickedUser, latestList>>

\* the state of the company page and of the user page
pageVars == <<page, companies, selectedCompany, editModal, users, selectedUser,
              viewModal, deleteModal, userData, inflight, issued, clickedUser,
              latestList>>

dashVars == <<ticketStatusData, loading, fetch, requests, toasts, hasCallback,
              navCount, lastNav, cbCount, lastCb, event, response>>

-----------------------------------------------------------------------------
(* Bounds of the model *)

\* counts drawn for the chart: -1 .. MaxSmall, and the two counts at the floor
MaxSmall == 1
\* value of the key that is not a status: 1 .. MaxExtra
MaxExtra == 1
\* counts in a response of the dashboard's request: 0 .. DashMaxCount
DashMaxCount == 1
\* clicks followed on the dashboard
MaxClicks == 2

-----------------------------------------------------------------------------
(* Exact rationals *)

Abs(x) == IF x < 0 THEN -x ELSE x

RECURSIVE GCD(_, _)
GCD(a, b) == IF b = 0 THEN a ELSE GCD(b, a % b)

\* the rational n/d (d # 0) in lowest terms, denominator positive
Rat(n, d) ==
    LET g == GCD(Abs(n), Abs(d))
        s == IF d < 0 THEN -1 ELSE 1
    IN  [n |-> (s * n) \div g, d |-> (s * d) \div g]

RatInt(k) == [n |-> k, d |-> 1]
RatAdd(a, b) == Rat(a.n * b.d + b.n * a.d, a.d * b.d)
RatMul(a, b) == Rat(a.n * b.n, a.d * b.d)
RatDiv(a, b) == Rat(a.n * b.d, a.d * b.n)
RatNeg(a) == [n |-> -a.n, d |-> a.d]
RatLess(a, b) == a.n * b.d < b.n * a.d
\* Math.max of two numbers
RatMax(a, b) == IF RatLess(a, b) THEN b ELSE a

-----------------------------------------------------------------------------
(* JavaScript objects *)

RECURSIVE Has(_, _)
Has(obj, k) ==
    IF obj = <<>> THEN FALSE
    ELSE IF Head(obj)[1] = k THEN TRUE ELSE Has(Tail(obj), k)

\* obj[k], for a key the object has
RECURSIVE Get(_, _)
Get(obj, k) ==
    IF Head(obj)[1] = k THEN Head(obj)[2] ELSE Get(Tail(obj), k)

\* Object.values(obj)
ObjectValues(obj) == [i \in 1..Len(obj) |-> obj[i][2]]

\* obj[k] > 0, which is false when obj[k] is undefined
\* (variant: obj[k] >= 0)
GreaterThanZeroNonNegative(obj, k) == Has(obj, k) /\ Get(obj, k) >= 0
GreaterThanZero(obj, k) == Has(obj, k) /\ Get(obj, k) > 0

-----------------------------------------------------------------------------
(* DonutChart *)

statusOrder == <<"OPEN", "PENDING", "INPROGRESS", "CLOSED", "COMPLETED">>
Statuses == {statusOrder[i] : i \in 1..Len(statusOrder)}

colors ==
    [s \in Statuses |->
        CASE s = "OPEN" -> "#3b82f6"
          [] s = "PENDING" -> "#ef4444"
          [] s = "INPROGRESS" -> "#f59e0b"
          [] s = "CLOSED" -> "#6b7280"
          [] s = "COMPLETED" -> "#10b981"]

\* values.reduce((sum, count) => sum + count, 0)
RECURSIVE ReduceSum(_, _)
ReduceSum(values, sum) ==
    IF values = <<>> THEN sum ELSE ReduceSum(Tail(values), sum + Head(values))

Total(obj) == ReduceSum(ObjectValues(obj), 0)

\* (variant: Object.keys(data).filter(status => data[status] > 0))
FilterStatusesKeyOrder(obj) ==
    SelectSeq([i \in 1..Len(obj) |-> obj[i][1]],
              LAMBDA s : s \in Statuses /\ GreaterThanZero(obj, s))

\* statusOrder.filter(status => data[status] > 0)
FilterStatuses(obj) == SelectSeq(statusOrder, LAMBDA s : GreaterThanZero(obj, s))

\* (variant: Math.floor((data[status] / total) * 100))
PercentageFloored(count, total) == RatInt((100 * count) \div total)

\* (variant: data[status] / total, a share in place of a percentage)
PercentageAsShare(count, total) == Rat(count, total)

\* (data[status] / total) * 100
Percentage(count, total) == RatMul(Rat(count, total), RatInt(100))

\* .map(status => ({status, count, percentage, color}))
Segments(obj, total) ==
    LET kept == FilterStatuses(obj)
    IN  [i \in 1..Len(kept) |->
            [status |-> kept[i],
             count |-> Get(obj, kept[i]),
             percentage |-> Percentage(Get(obj, kept[i]), total),
             color |-> colors[kept[i]]]]

size == 280
strokeWidth == 35
radius == Rat(size - strokeWidth, 2)
\* 2 * Math.PI * radius, as a multiple of pi
circumference == RatMul(RatInt(2), radius)

minVisiblePercentage == Rat(1, 2)

\* (variant: Math.min in place of Math.max)
DisplayPercentageMin(segment) ==
    IF RatLess(segment.percentage, minVisiblePercentage)
        THEN segment.percentage ELSE minVisiblePercentage
\* (variant: no floor)
DisplayPercentageNoFloor(segment) == segment.percentage
\* (variant: segment.percentage || minVisiblePercentage)
DisplayPercentageOrFloor(segment) ==
    IF segment.percentage.n = 0 THEN minVisiblePercentage ELSE segment.percentage

\* Math.max(segment.percentage, minVisiblePercentage)
DisplayPercentage(segment) == RatMax(segment.percentage, minVisiblePercentage)

\* (displayPercentage / 100) * circumference
DashArray(segment) ==
    RatMul(RatDiv(DisplayPercentage(segment), RatInt(100)), circumference)

\* -accumulatedPercentage * circumference / 100
DashOffset(accumulatedPercentage) ==
    RatDiv(RatMul(RatNeg(accumulatedPercentage), circumference), RatInt(100))

\* (variant: accumulatedPercentage += displayPercentage)
AdvanceByDisplay(accumulatedPercentage, segment) ==
    RatAdd(accumulatedPercentage, DisplayPercentage(segment))

\* accumulatedPercentage += segment.percentage
Advance(accumulatedPercentage, segment) ==
    RatAdd(accumulatedPercentage, segment.percentage)

\* segments.map((segment) => <circle .../>), accumulatedPercentage running
\* across the calls of the callback
RECURSIVE Circles(_, _)
Circles(segments, accumulatedPercentage) ==
    IF segments = <<>> THEN <<>>
    ELSE LET segment == Head(segments)
         IN  <<[status |-> segment.status,
                count |-> segment.count,
                percentage |-> segment.percentage,
                stroke |-> segment.color,
                dashArray |-> DashArray(segment),
                dashOffset |-> DashOffset(accumulatedPercentage),
                start |-> accumulatedPercentage]>>
             \o Circles(Tail(segments), Advance(accumulatedPercentage, segment))

\* the accumulatedPercentage the render ends with
RECURSIVE Accumulated(_, _)
Accumulated(segments, accumulatedPercentage) ==
    IF segments = <<>> THEN accumulatedPercentage
    ELSE Accumulated(Tail(segments), Advance(accumulatedPercentage, Head(segments)))

EmptyState == [kind |-> "empty", total |-> 0, circles |-> <<>>, accumulated |-> RatInt(0)]
NotRendered == [kind |-> "none", total |-> 0, circles |-> <<>>, accumulated |-> RatInt(0)]

\* (variant: without the total === 0 branch)
DonutChartNoEmptyState(obj) ==
    [kind |-> "donut", total |-> Total(obj), circles |-> <<>>,
     accumulated |-> RatInt(0)]

\* what DonutChart({data}) returns
DonutChart(obj) ==
    LET total == Total(obj)
    IN  IF total = 0 THEN EmptyState
        ELSE LET segments == Segments(obj, total)
             IN  [kind |-> "donut",
                  total |-> total,
                  circles |-> Circles(segments, RatInt(0)),
                  accumulated |-> Accumulated(segments, RatInt(0))]

-----------------------------------------------------------------------------
(* Inputs *)

\* the key of a response that is not one of the five statuses
ExtraKey == "PRIORITY"

\* 100 / minVisiblePercentage: one ticket in this many is exactly at the floor
FloorTotal == RatDiv(RatInt(100), minVisiblePercentage).n

\* against FloorTotal - 1 tickets one ticket is exactly at the floor, against
\* FloorTotal tickets it is below it
CountValues == (-1 .. MaxSmall) \cup {FloorTotal - 1, FloorTotal}
ExtraValues == 1 .. MaxExtra

\* a key of a mapping is absent (<<>>) or holds one value (<<v>>)
CountChoices == {<<>>} \cup {<<v>> : v \in CountValues}
ExtraChoices == {<<>>} \cup {<<v>> : v \in ExtraValues}

\* the object that holds the chosen keys of `keys`, inserted in that order
BuildObject(keys, choice) ==
    LET present == SelectSeq([i \in 1..Len(keys) |-> keys[i]],
                             LAMBDA k : choice[k] # <<>>)
    IN  [j \in 1..Len(present) |-> <<present[j], choice[present[j]][1]>>]

Reverse(seq) == [i \in 1..Len(seq) |-> seq[Len(seq) + 1 - i]]

\* the key orders a mapping is given in: the chart's own order, and the
\* order of the dashboard's initial state, which is its reverse
KeyOrders == {statusOrder \o <<ExtraKey>>, <<ExtraKey>> \o Reverse(statusOrder)}

ChartInputs ==
    {BuildObject(order, counts @@ (ExtraKey :> extra)) :
        order \in KeyOrders, counts \in [Statuses -> CountChoices],
        extra \in ExtraChoices}

-----------------------------------------------------------------------------
(* The chart alone: DonutChart mounted with a data prop *)

\* the company page and the user page as constructed
PagesUnmounted(p) ==
    /\ page = p
    /\ companies = <<>>
    /\ selectedCompany = <<>>
    /\ editModal = FALSE
    /\ users = <<>>
    /\ selectedUser = <<>>
    /\ viewModal = FALSE
    /\ deleteModal = FALSE
    /\ userData = <<>>
    /\ inflight = {}
    /\ issued = 0
    /\ clickedUser = <<>>
    /\ latestList = <<>>

NoEvent == [type |-> "none", status |-> ""]
NoUrl == [path |-> "", status |-> ""]

InitialData ==
    << <<"COMPLETED", 0>>, <<"CLOSED", 0>>, <<"INPROGRESS", 0>>,
       <<"PENDING", 0>>, <<"OPEN", 0>> >>

InitChart ==
    /\ data \in ChartInputs
    /\ chart = NotRendered
    /\ tooltip = <<>>
    /\ ticketStatusData = InitialData
    /\ loading = FALSE
    /\ fetch = "initial"
    /\ requests = 0
    /\ toasts = 0
    /\ hasCallback = FALSE
    /\ navCount = 0
    /\ lastNav = NoUrl
    /\ cbCount = 0
    /\ lastCb = ""
    /\ event = NoEvent
    /\ response = <<>>
    /\ PagesUnmounted("chart")

RenderDonut ==
    /\ chart.kind = "none"
    /\ chart' = DonutChart(data)
    /\ UNCHANGED <<data, tooltip>>
    /\ UNCHANGED dashVars
    /\ UNCHANGED pageVars

NextChart == RenderDonut

SpecChart == InitChart /\ [][NextChart]_vars

-----------------------------------------------------------------------------
(* DashboardHome *)

\* the data of a response with code 1: the five counts, in the order of the
\* initial state
DashPayloads ==
    {BuildObject(Reverse(statusOrder), counts) :
        counts \in [Statuses -> {<<v>> : v \in 0 .. DashMaxCount}]}

\* {loading ? <placeholder/> : <DonutChart data={ticketStatusData} />}
ChartProps(tsd, ld) == IF ld THEN <<>> ELSE tsd
\* (variant: the chart is rendered whether loading or not)
ChartElementAlways(tsd, ld) == DonutChart(tsd)
ChartElement(tsd, ld) == IF ld THEN NotRendered ELSE DonutChart(tsd)

\* the component as first rendered, before its mount effect has run
Init ==
    /\ ticketStatusData = InitialData
    /\ loading = FALSE
    /\ fetch = "initial"
    /\ requests = 0
    /\ toasts = 0
    /\ hasCallback \in BOOLEAN
    /\ navCount = 0
    /\ lastNav = NoUrl
    /\ cbCount = 0
    /\ lastCb = ""
    /\ event = NoEvent
    /\ response = <<>>
    /\ PagesUnmounted("dashboard")
    /\ tooltip = <<>>
    /\ data = ChartProps(InitialData, FALSE)
    /\ chart = ChartElement(InitialData, FALSE)

\* DashboardHome re-renders after a change of its state; DonutChart, a
\* function created by that render, is mounted anew with its state reset
Rerender ==
    /\ data' = ChartProps(ticketStatusData', loading')
    /\ chart' = ChartElement(ticketStatusData', loading')
    /\ tooltip' = <<>>

\* useEffect(..., []): fetchTicketStatusCounts() up to its await
MountEffect ==
    /\ fetch = "initial"
    /\ fetch' = "inflight"
    /\ loading' = TRUE
    /\ requests' = requests + 1
    /\ event' = [type |-> "mount", status |-> ""]
    /\ UNCHANGED <<ticketStatusData, toasts, hasCallback, navCount, lastNav,
                   cbCount, lastCb, response>>
    /\ Rerender
    /\ UNCHANGED pageVars

\* the request is answered with res.data.code === 1
FetchSuccess(payload) ==
    /\ fetch = "inflight"
    /\ fetch' = "settled"
    /\ response' = <<[outcome |-> "code 1", data |-> payload]>>
    /\ ticketStatusData' = payload
    /\ loading' = FALSE
    /\ event' = [type |-> "response", status |-> ""]
    /\ UNCHANGED <<requests, toasts, hasCallback, navCount, lastNav, cbCount, lastCb>>
    /\ Rerender
    /\ UNCHANGED pageVars

\* (variant: the data of the response is stored whatever its code)
FetchRejectedStoresData(payload) ==
    /\ fetch = "inflight"
    /\ fetch' = "settled"
    /\ response' = <<[outcome |-> "other code", data |-> payload]>>
    /\ ticketStatusData' = payload
    /\ toasts' = toasts + 1
    /\ loading' = FALSE
    /\ event' = [type |-> "response", status |-> ""]
    /\ UNCHANGED <<requests, hasCallback, navCount, lastNav, cbCount, lastCb>>
    /\ Rerender
    /\ UNCHANGED pageVars

\* the request is answered with another code, whatever data comes with it
FetchRejected(payload) ==
    /\ fetch = "inflight"
    /\ fetch' = "settled"
    /\ response' = <<[outcome |-> "other code", data |-> payload]>>
    /\ toasts' = toasts + 1
    /\ loading' = FALSE
    /\ event' = [type |-> "response", status |-> ""]
    /\ UNCHANGED <<ticketStatusData, requests, hasCallback, navCount, lastNav,
                   cbCount, lastCb>>
    /\ Rerender
    /\ UNCHANGED pageVars

\* (variant: the request is issued again after a failure)
FetchThrowsAndRetries ==
    /\ fetch = "inflight"
    /\ fetch' = "inflight"
    /\ response' = <<[outcome |-> "threw", data |-> <<>>]>>
    /\ toasts' = toasts + 1
    /\ loading' = TRUE
    /\ requests' = requests + 1
    /\ event' = [type |-> "error", status |-> ""]
    /\ UNCHANGED <<ticketStatusData, hasCallback, navCount, lastNav, cbCount, lastCb>>
    /\ Rerender
    /\ UNCHANGED pageVars

\* axios.get throws
FetchThrows ==
    /\ fetch = "inflight"
    /\ fetch' = "settled"
    /\ response' = <<[outcome |-> "threw", data |-> <<>>]>>
    /\ toasts' = toasts + 1
    /\ loading' = FALSE
    /\ event' = [type |-> "error", status |-> ""]
    /\ UNCHANGED <<ticketStatusData, requests, hasCallback, navCount, lastNav,
                   cbCount, lastCb>>
    /\ Rerender
    /\ UNCHANGED pageVars

\* navigate(`/home/ticket/show?status=${status}`); what the router and the host
\* do with the call is theirs, and the page is followed for MaxClicks clicks
TicketUrl(status) == [path |-> "/home/ticket/show", status |-> status]

\* (variant: the callback is not invoked)
HandleCardClickNavigateOnly(status) ==
    /\ navCount' = navCount + 1
    /\ lastNav' = TicketUrl(status)
    /\ UNCHANGED <<cbCount, lastCb>>

HandleCardClick(status) ==
    /\ navCount' = navCount + 1
    /\ lastNav' = TicketUrl(status)
    /\ IF hasCallback
          THEN cbCount' = cbCount + 1 /\ lastCb' = status
          ELSE UNCHANGED <<cbCount, lastCb>>

\* the statuses that have a circle in the rendered chart
Rendered(c) == {c.circles[i].status : i \in 1..Len(c.circles)}
CircleOf(c, s) == c.circles[CHOOSE i \in 1..Len(c.circles) : c.circles[i].status = s]

\* onClick of the circle of a segment
ClickSegment(s) ==
    /\ s \in Rendered(chart)
    /\ navCount < MaxClicks
    /\ event' = [type |-> "click-segment", status |-> s]
    /\ HandleCardClick(CircleOf(chart, s).status)
    /\ UNCHANGED <<data, chart, tooltip, ticketStatusData, loading, fetch,
                   requests, toasts, hasCallback, response>>
    /\ UNCHANGED pageVars

\* onClick of a status card
ClickCard(s) ==
    /\ navCount < MaxClicks
    /\ event' = [type |-> "click-card", status |-> s]
    /\ HandleCardClick(s)
    /\ UNCHANGED <<data, chart, tooltip, ticketStatusData, loading, fetch,
                   requests, toasts, hasCallback, response>>
    /\ UNCHANGED pageVars

getStatusLabel(status) ==
    CASE status = "COMPLETED" -> "Completed"
      [] status = "CLOSED" -> "Closed"
      [] status = "INPROGRESS" -> "In Progress"
      [] status = "PENDING" -> "Pending"
      [] status = "OPEN" -> "Open"
      [] OTHER -> status

\* `${segment.status}: ${segment.count} Tickets`
TooltipText(segment) == [label |-> segment.status, count |-> segment.count]

\* onMouseMove of the circle of a segment
MouseMove(s) ==
    /\ s \in Rendered(chart)
    /\ tooltip' = <<TooltipText(CircleOf(chart, s))>>
    /\ event' = [type |-> "mousemove", status |-> s]
    /\ UNCHANGED <<data, chart, ticketStatusData, loading, fetch, requests,
                   toasts, hasCallback, navCount, lastNav, cbCount, lastCb,
                   response>>
    /\ UNCHANGED pageVars

\* (variant: the tooltip is left as it is)
MouseLeaveKeepsTooltip(s) ==
    /\ s \in Rendered(chart)
    /\ tooltip' = tooltip
    /\ event' = [type |-> "mouseleave", status |-> s]
    /\ UNCHANGED <<data, chart, ticketStatusData, loading, fetch, requests,
                   toasts, hasCallback, navCount, lastNav, cbCount, lastCb,
                   response>>
    /\ UNCHANGED pageVars

\* onMouseLeave of the circle of a segment
MouseLeave(s) ==
    /\ s \in Rendered(chart)
    /\ tooltip' = <<>>
    /\ event' = [type |-> "mouseleave", status |-> s]
    /\ UNCHANGED <<data, chart, ticketStatusData, loading, fetch, requests,
                   toasts, hasCallback, navCount, lastNav, cbCount, lastCb,
                   response>>
    /\ UNCHANGED pageVars

Next ==
    \/ MountEffect
    \/ \E payload \in DashPayloads : FetchSuccess(payload)
    \/ \E payload \in DashPayloads : FetchRejected(payload)
    \/ FetchThrows
    \/ \E s \in Statuses : ClickSegment(s)
    \/ \E s \in Statuses : ClickCard(s)
    \/ \E s \in Statuses : MouseMove(s)
    \/ \E s \in Statuses : MouseLeave(s)

Spec == Init /\ [][Next]_vars

-----------------------------------------------------------------------------
(* Properties of the chart, stated on the data prop and the rendered chart *)

\* the count of a status in a mapping, a missing key counting as 0
CountOf(obj, s) == IF Has(obj, s) THEN Get(obj, s) ELSE 0

\* the sum of the first n entries of a mapping
RECURSIVE SumOfEntries(_, _)
SumOfEntries(obj, n) == IF n = 0 THEN 0 ELSE obj[n][2] + SumOfEntries(obj, n - 1)
SumOfCounts(obj) == SumOfEntries(obj, Len(obj))

\* the place of a status in the fixed order
OrderIndex(s) == CHOOSE i \in 1..Len(statusOrder) : statusOrder[i] = s

\* the sum of the counts of the statuses strictly before s in the fixed order
RECURSIVE CountsBelow(_, _)
CountsBelow(obj, i) ==
    IF i = 0 THEN 0 ELSE CountOf(obj, statusOrder[i]) + CountsBelow(obj, i - 1)
CountsBefore(obj, s) == CountsBelow(obj, OrderIndex(s) - 1)

OnlyStatuses(obj) == \A i \in 1..Len(obj) : obj[i][1] \in Statuses
NonNegative(obj) == \A i \in 1..Len(obj) : obj[i][2] >= 0
IsRendered == chart.kind # "none"

\* the sum of the percentages of the first n circles
RECURSIVE PercentageSum(_, _)
PercentageSum(circles, n) ==
    IF n = 0 THEN RatInt(0)
    ELSE RatAdd(circles[n].percentage, PercentageSum(circles, n - 1))

\* C1: a mapping whose counts sum to 0 renders the empty state and no segment.
C1_ZeroTotalIsEmptyState ==
    (IsRendered /\ SumOfCounts(data) = 0) =>
        (chart.kind = "empty" /\ chart.circles = <<>>)

C1_Witness ==
    /\ chart.kind = "empty"
    /\ Len(data) = 5
    /\ \A s \in Statuses : Has(data, s) /\ Get(data, s) = 0

\* C2: with a positive total over the five statuses, the statuses that have a
\* segment are exactly those with a count above 0, each with one segment.
C2_SegmentsAreThePositiveCounts ==
    (IsRendered /\ OnlyStatuses(data) /\ SumOfCounts(data) > 0) =>
        /\ chart.kind = "donut"
        /\ Rendered(chart) = {s \in Statuses : CountOf(data, s) > 0}
        /\ Len(chart.circles) = Cardinality(Rendered(chart))

C2_Witness ==
    /\ chart.kind = "donut"
    /\ OnlyStatuses(data)
    /\ SumOfCounts(data) > 0
    /\ Has(data, "PENDING") /\ Get(data, "PENDING") = 0
    /\ Has(data, "CLOSED") /\ Get(data, "CLOSED") > 0
    /\ Rendered(chart) = {"OPEN", "CLOSED"}

\* C3: the segments appear in the order OPEN, PENDING, INPROGRESS, CLOSED,
\* COMPLETED whatever the counts and the key order of the mapping, and the
\* first of them starts at offset 0.
C3_SegmentsInFixedOrder ==
    IsRendered =>
        /\ \A i, j \in 1..Len(chart.circles) :
              i < j => OrderIndex(chart.circles[i].status)
                          < OrderIndex(chart.circles[j].status)
        /\ chart.circles # <<>> =>
              /\ chart.circles[1].start = RatInt(0)
              /\ chart.circles[1].dashOffset = RatInt(0)

\* OPEN: 1 and COMPLETED: 200, the keys given with COMPLETED first
C3_Witness ==
    /\ data = << <<"COMPLETED", FloorTotal>>, <<"OPEN", 1>> >>
    /\ Len(chart.circles) = 2
    /\ chart.circles[1].status = "OPEN"
    /\ chart.circles[1].start = RatInt(0)

\* C4: with non-negative counts over the five statuses and a positive total,
\* a segment starts at the sum of the true percentages of the statuses before
\* it in the fixed order, and its dash offset is that share of the circle.
C4_StartIsSumOfTruePercentages ==
    (IsRendered /\ OnlyStatuses(data) /\ NonNegative(data) /\ SumOfCounts(data) > 0) =>
        \A i \in 1..Len(chart.circles) :
            LET c == chart.circles[i]
                before == CountsBefore(data, c.status)
            IN  /\ c.start = Rat(100 * before, SumOfCounts(data))
                /\ c.dashOffset =
                      RatNeg(RatMul(Rat(before, SumOfCounts(data)), circumference))

\* a segment below the floor is followed by another segment
C4_Witness ==
    /\ chart.kind = "donut"
    /\ OnlyStatuses(data) /\ NonNegative(data)
    /\ Len(chart.circles) = 3
    /\ RatLess(chart.circles[2].percentage, minVisiblePercentage)
    /\ chart.circles[3].start = RatAdd(chart.circles[1].percentage,
                                       chart.circles[2].percentage)
    /\ Has(data, "PENDING") /\ Get(data, "PENDING") = 0

\* C5: with a positive total T, a status whose true percentage count/T*100 is
\* at least 0.5 has an arc of length count/T of the circumference.
C5_Proportionality ==
    (IsRendered /\ SumOfCounts(data) > 0) =>
        \A s \in Statuses :
            200 * CountOf(data, s) >= SumOfCounts(data) =>
                /\ s \in Rendered(chart)
                /\ CircleOf(chart, s).dashArray =
                      RatMul(Rat(CountOf(data, s), SumOfCounts(data)), circumference)

\* one status exactly at the floor, another above it
C5_Witness ==
    /\ chart.kind = "donut"
    /\ SumOfCounts(data) = FloorTotal
    /\ CountOf(data, "INPROGRESS") = 1
    /\ CountOf(data, "OPEN") = FloorTotal - 1
    /\ CircleOf(chart, "INPROGRESS").dashArray = RatMul(Rat(1, FloorTotal), circumference)
    /\ CircleOf(chart, "OPEN").dashArray =
          RatMul(Rat(FloorTotal - 1, FloorTotal), circumference)

\* C6: with a positive total T, a status with a count above 0 whose true
\* percentage is below 0.5 (200 * count < T) has an arc of exactly 0.5% of the
\* circumference.
C6_VisibilityFloor ==
    (IsRendered /\ SumOfCounts(data) > 0) =>
        \A s \in Statuses :
            (CountOf(data, s) > 0 /\ 200 * CountOf(data, s) < SumOfCounts(data)) =>
                /\ s \in Rendered(chart)
                /\ CircleOf(chart, s).dashArray =
                      RatMul(Rat(1, 200), circumference)

C6_Witness ==
    /\ chart.kind = "donut"
    /\ SumOfCounts(data) = FloorTotal + 1
    /\ CountOf(data, "CLOSED") = 1
    /\ CircleOf(chart, "CLOSED").dashArray = RatMul(Rat(1, 200), circumference)

\* C7: with non-negative counts over the five statuses and a positive total,
\* the true percentages of the rendered segments sum to 100, and so does the
\* running offset after the last segment.
C7_Tiling ==
    (IsRendered /\ OnlyStatuses(data) /\ NonNegative(data) /\ SumOfCounts(data) > 0) =>
        /\ PercentageSum(chart.circles, Len(chart.circles)) = RatInt(100)
        /\ chart.accumulated = RatInt(100)

\* three segments, two of them below the floor
C7_Witness ==
    /\ chart.kind = "donut"
    /\ OnlyStatuses(data) /\ NonNegative(data)
    /\ Len(chart.circles) = 3
    /\ Cardinality({i \in 1..3 :
            RatLess(chart.circles[i].percentage, minVisiblePercentage)}) = 2
    /\ chart.accumulated = RatInt(100)

\* the mapping without its entries of key k
WithoutKey(obj, k) == SelectSeq(obj, LAMBDA e : e[1] # k)

\* C8: a key that is not one of the five statuses yields no segment, and the
\* total, the percentages and the start offsets of the five statuses are those
\* of the mapping without that key.
C8_UnknownKeyChangesNothing ==
    (IsRendered /\ Has(data, ExtraKey)) =>
        LET without == DonutChart(WithoutKey(data, ExtraKey))
        IN  /\ ExtraKey \notin Rendered(chart)
            /\ chart.total = without.total
            /\ Len(chart.circles) = Len(without.circles)
            /\ \A i \in 1..Len(chart.circles) :
                  /\ chart.circles[i].status = without.circles[i].status
                  /\ chart.circles[i].percentage = without.circles[i].percentage
                  /\ chart.circles[i].start = without.circles[i].start

\* C10: whatever the counts, negative ones included, no rendered segment has a
\* negative arc length.
C10_NoNegativeArcLength ==
    IsRendered =>
        \A i \in 1..Len(chart.circles) : chart.circles[i].dashArray.n >= 0

\* a segment rendered under a negative total
C10_Witness ==
    /\ chart.kind = "donut"
    /\ chart.total < 0
    /\ \E i \in 1..Len(chart.circles) :
          /\ chart.circles[i].percentage.n < 0
          /\ chart.circles[i].dashArray.n >= 0

\* the mapping with every missing status added at count 0
FillMissing(obj) ==
    obj \o [i \in 1..Len(SelectSeq(statusOrder, LAMBDA s : ~Has(obj, s))) |->
              <<SelectSeq(statusOrder, LAMBDA s : ~Has(obj, s))[i], 0>>]

\* C11: a mapping that lacks some of the five statuses renders as the mapping
\* with those statuses present at count 0: same branch, total, segments,
\* percentages, arc lengths and start offsets.
C11_MissingKeyIsZero ==
    IsRendered => chart = DonutChart(FillMissing(data))

\* two statuses missing, one at 0, two rendered
C11_Witness ==
    /\ chart.kind = "donut"
    /\ ~Has(data, "OPEN") /\ ~Has(data, "CLOSED")
    /\ Has(data, "PENDING") /\ Get(data, "PENDING") = 0
    /\ Rendered(chart) = {"INPROGRESS", "COMPLETED"}
    /\ chart.total = FloorTotal + 1

\* C12: when exactly one status has a count above 0 and the other four are 0,
\* the chart has exactly one segment, for that status, with percentage 100,
\* start offset 0 and an arc of the full circumference.
C12_SingleCategory ==
    (IsRendered /\ OnlyStatuses(data)) =>
        \A s \in Statuses :
            (CountOf(data, s) > 0
                /\ \A t \in Statuses \ {s} : CountOf(data, t) = 0) =>
                /\ Len(chart.circles) = 1
                /\ chart.circles[1].status = s
                /\ chart.circles[1].percentage = RatInt(100)
                /\ chart.circles[1].start = RatInt(0)
                /\ chart.circles[1].dashArray = circumference

C12_Witness ==
    /\ Len(data) = 5
    /\ CountOf(data, "OPEN") = FloorTotal
    /\ \A t \in Statuses \ {"OPEN"} : Has(data, t) /\ Get(data, t) = 0
    /\ Len(chart.circles) = 1
    /\ chart.circles[1].dashArray = circumference

\* the share of the circle, in percent, that the arc of a circle covers
RenderedPercentage(c) == RatDiv(RatMul(c.dashArray, RatInt(100)), circumference)

RECURSIVE RenderedSum(_, _)
RenderedSum(circles, n) ==
    IF n = 0 THEN RatInt(0)
    ELSE RatAdd(RenderedPercentage(circles[n]), RenderedSum(circles, n - 1))

IsFloored(c) == RatLess(c.percentage, minVisiblePercentage)

\* a floored segment reaches into the next one by 0.5 - p, and the arcs sum to
\* more than the circle exactly when a segment is floored
FloorOverlap ==
    /\ \A i \in 1..(Len(chart.circles) - 1) :
          IsFloored(chart.circles[i]) =>
              /\ RenderedPercentage(chart.circles[i]) = minVisiblePercentage
              /\ RatAdd(RatAdd(chart.circles[i].start,
                                RenderedPercentage(chart.circles[i])),
                         RatNeg(chart.circles[i + 1].start))
                    = RatAdd(minVisiblePercentage, RatNeg(chart.circles[i].percentage))
    /\ RatLess(RatInt(100), RenderedSum(chart.circles, Len(chart.circles)))
          <=> \E i \in 1..Len(chart.circles) : IsFloored(chart.circles[i])

\* C17 as claimed: the floor overlap for every mapping over the five statuses
\* with a positive total.
C17_FloorOverlapAnyCounts ==
    (IsRendered /\ OnlyStatuses(data) /\ SumOfCounts(data) > 0) => FloorOverlap

\* C17: for every mapping over the five statuses with non-negative counts and
\* a positive total, a rendered segment with true percentage p < 0.5 that is
\* followed by another ends 0.5 - p beyond the start of the next, and the
\* rendered arcs sum to more than the full circle exactly when a segment is
\* floored.
C17_FloorOverlap ==
    (IsRendered /\ OnlyStatuses(data) /\ NonNegative(data) /\ SumOfCounts(data) > 0)
        => FloorOverlap

\* a floored segment followed by another
C17_Witness ==
    /\ chart.kind = "donut"
    /\ OnlyStatuses(data) /\ NonNegative(data)
    /\ Len(chart.circles) = 2
    /\ IsFloored(chart.circles[1])
    /\ chart.circles[2].start = chart.circles[1].percentage
    /\ RatLess(RatInt(100), RenderedSum(chart.circles, 2))

-----------------------------------------------------------------------------
(* Properties of the dashboard *)

\* C9: a click on the rendered segment of status S navigates once to the ticket
\* list filtered by S and, when onNavigateToTickets is provided, invokes it
\* exactly once, with S.
C9_ClickStep ==
    event'.type = "click-segment" =>
        /\ event'.status \in Rendered(chart)
        /\ navCount' = navCount + 1
        /\ lastNav' = [path |-> "/home/ticket/show", status |-> event'.status]
        /\ hasCallback => (cbCount' = cbCount + 1 /\ lastCb' = event'.status)
        /\ ~hasCallback => (cbCount' = cbCount /\ lastCb' = lastCb)

C9_SegmentClickNotifiesOnce == [][C9_ClickStep]_vars

C9_Witness ==
    /\ event = [type |-> "click-segment", status |-> "PENDING"]
    /\ hasCallback
    /\ navCount = 1 /\ cbCount = 1
    /\ lastCb = "PENDING"
    /\ lastNav.status = "PENDING"

\* C13: after a pointer move over the segment of status S the tooltip shows the
\* human label of S, as getStatusLabel returns it, with the raw count of S.
C13_TooltipShowsHumanLabel ==
    event.type = "mousemove" =>
        tooltip = <<[label |-> getStatusLabel(event.status),
                     count |-> CountOf(ticketStatusData, event.status)]>>

\* C14: the tooltip is null at first, becomes non-null only by a pointer move
\* over a rendered segment, refers to the segment last moved over, and is null
\* after every pointer leave; no response and no click sets it.
C14_TooltipStep ==
    /\ event'.type = "mousemove" =>
          /\ event'.status \in Rendered(chart)
          /\ Len(tooltip') = 1
          /\ tooltip'[1].label = event'.status
          /\ tooltip'[1].count = CountOf(ticketStatusData, event'.status)
    /\ event'.type = "mouseleave" => tooltip' = <<>>
    /\ event'.type \in {"click-segment", "click-card"} => tooltip' = tooltip
    /\ event'.type \in {"mount", "response", "error"} => tooltip' = <<>>

C14_TooltipLifecycle ==
    /\ tooltip = <<>>
    /\ [][C14_TooltipStep]_vars

\* the tooltip of a segment is still shown after a click on a card
C14_Witness ==
    /\ event.type = "click-card"
    /\ tooltip # <<>>
    /\ tooltip[1].label = "CLOSED"
    /\ event.status = "OPEN"

\* C15: navigate and onNavigateToTickets are called only by a click on a
\* rendered segment or on a status card, never by the mount, a response or a
\* pointer move or leave; through the chart only for a status whose count is
\* above 0, through the cards for any of the five statuses.
C15_NavigationStep ==
    (navCount' # navCount \/ cbCount' # cbCount
        \/ lastNav' # lastNav \/ lastCb' # lastCb) =>
        /\ event'.type \in {"click-segment", "click-card"}
        /\ event'.status \in Statuses
        /\ lastNav'.status = event'.status
        /\ event'.type = "click-segment" =>
              (~loading /\ CountOf(ticketStatusData, event'.status) > 0)

C15_NavigationOnlyOnClick == [][C15_NavigationStep]_vars

\* the card of a status without tickets was clicked while the chart shows segments
C15_Witness ==
    /\ event.type = "click-card"
    /\ fetch = "settled"
    /\ CountOf(ticketStatusData, event.status) = 0
    /\ lastNav.status = event.status
    /\ navCount = 2
    /\ Rendered(chart) # {}

\* C16: while the request is in flight loading is true, and while loading is
\* true the chart area holds the placeholder: neither the empty state nor a
\* segment is rendered.
C16_LoadingIsNotEmpty ==
    /\ fetch = "inflight" => loading
    /\ loading => (chart.kind = "none" /\ chart.circles = <<>> /\ data = <<>>)

C16_Witness ==
    /\ fetch = "inflight"
    /\ loading
    /\ chart.kind = "none"
    /\ Total(ticketStatusData) = 0

\* C18: one request per mount, issued by the mount effect; no click, pointer
\* move or response issues another, so at most one is in flight.
C18_RequestStep ==
    requests' # requests =>
        (requests = 0 /\ requests' = 1 /\ event'.type = "mount")

C18_FetchOnceOnMount ==
    /\ [](requests = (IF fetch = "initial" THEN 0 ELSE 1))
    /\ [][C18_RequestStep]_vars

\* the request has failed and the page was used afterwards
C18_Witness ==
    /\ requests = 1
    /\ fetch = "settled"
    /\ response # <<>> /\ response[1].outcome = "threw"
    /\ navCount = MaxClicks

\* C19: a response with a code other than 1, or an exception, leaves the counts
\* as they were, issues no request and ends loading; the counts are replaced,
\* by the data of the response, only when its code is 1.
C19_ResponseStep ==
    /\ response' # response =>
          /\ Len(response') = 1
          /\ loading' = FALSE
          /\ requests' = requests
          /\ ticketStatusData' =
                (IF response'[1].outcome = "code 1"
                    THEN response'[1].data ELSE ticketStatusData)
    /\ ticketStatusData' # ticketStatusData => response' # response

C19_FailureKeepsCounts == [][C19_ResponseStep]_vars

\* a response with another code brought counts that were not stored
C19_Witness ==
    /\ response # <<>>
    /\ response[1].outcome = "other code"
    /\ Total(response[1].data) > 0
    /\ ticketStatusData = InitialData
    /\ ~loading
    /\ requests = 1

\* C22 as stated: the empty state ("No tickets assigned yet") is displayed only
\* after a ticket-count fetch was answered with code 1 and a total of 0; never
\* before the first fetch has started and never after a fetch that failed.
C22_EmptyOnlyAfterSuccessfulZero ==
    chart.kind = "empty" =>
        /\ fetch = "settled"
        /\ response # <<>>
        /\ response[1].outcome = "code 1"
        /\ Total(response[1].data) = 0

\* the empty state is displayed after the request threw
C22_EmptyAfterFailure ==
    /\ chart.kind = "empty"
    /\ fetch = "settled"
    /\ response # <<>>
    /\ response[1].outcome = "threw"

-----------------------------------------------------------------------------
(* The company page and the user page: what they share *)

\* requests one page may issue
MaxRequests == 4

Ids == {1, 2}
Names == {"a", "b"}

\* a company or a user: its id and the text of its fields
Records == [id : Ids, name : Names]

RECURSIVE Ascending(_)
Ascending(S) ==
    IF S = {} THEN <<>>
    ELSE LET m == CHOOSE x \in S : \A y \in S : x <= y
         IN <<m>> \o Ascending(S \ {m})

\* the lists a list request may be answered with: res.data.data || []
ListsOf(names) ==
    UNION { { [i \in 1 .. Cardinality(S) |->
                  [id |-> Ascending(S)[i], name |-> f[Ascending(S)[i]]]]
              : f \in [S -> names] }
            : S \in SUBSET Ids }

\* the company page edits the fields of a company, the user page edits none
CompanyLists == ListsOf(Names)
UserRecords == [id : Ids, name : {"a"}]
UserLists == ListsOf({"a"})

\* departmentId of the SuperAdmin, and the departments a user may be in
SuperAdminDepartment == 1
Departments == {SuperAdminDepartment, SuperAdminDepartment + 1}

\* sessionStorage userData as the page finds it on mount
StoredUserData == {<<>>} \cup { <<[departmentId |-> d]>> : d \in Departments }

isSuperAdmin == userData # <<>> /\ userData[1].departmentId = SuperAdminDepartment

\* res.data.code of an answer, or the request threw
Outcomes == {"code 1", "code 200", "other code", "threw"}

Request(n, kind, arg) == [seq |-> n, kind |-> kind, arg |-> arg]

Answer(req, outcome, payload) == <<[req |-> req, outcome |-> outcome, data |-> payload]>>

\* update requests not answered yet: each may still issue a list request
Reserved == Cardinality({ r \in inflight : r.kind = "update" })

CanIssue(n) == issued + Reserved + n <= MaxRequests

\* prev.filter((c) => c.id === id)
FilterKeepId(list, id) == SelectSeq(list, LAMBDA c : c.id = id)

\* prev.filter((c) => c.id !== id)
RECURSIVE FilterOutId(_, _)
FilterOutId(list, id) ==
    IF list = <<>> THEN <<>>
    ELSE IF list[1].id # id THEN <<list[1]>> \o FilterOutId(Tail(list), id)
    ELSE FilterOutId(Tail(list), id)

Rows(list) == { list[i] : i \in 1 .. Len(list) }

\* the state of the dashboard and the chart, which the pages leave alone
otherVars == <<data, chart, tooltip, ticketStatusData, fetch, requests, toasts,
               hasCallback, navCount, lastNav, cbCount, lastCb, event>>

\* the page as constructed: loading starts true, the lists start empty
InitPages ==
    /\ page \in {"company", "user"}
    /\ companies = <<>>
    /\ selectedCompany = <<>>
    /\ editModal = FALSE
    /\ users = <<>>
    /\ selectedUser = <<>>
    /\ viewModal = FALSE
    /\ deleteModal = FALSE
    /\ userData = <<>>
    /\ inflight = {}
    /\ issued = 0
    /\ clickedUser = <<>>
    /\ latestList = <<>>
    /\ loading = TRUE
    /\ response = <<>>
    /\ data = InitialData
    /\ chart = NotRendered
    /\ tooltip = <<>>
    /\ ticketStatusData = InitialData
    /\ fetch = "initial"
    /\ requests = 0
    /\ toasts = 0
    /\ hasCallback = FALSE
    /\ navCount = 0
    /\ lastNav = NoUrl
    /\ cbCount = 0
    /\ lastCb = ""
    /\ event = NoEvent

\* the two mount effects: initializeUserData, then the list fetch
MountPage(stored, token) ==
    /\ page \in {"company", "user"}
    /\ issued = 0
    /\ LET user == IF stored = <<>> /\ token
                   THEN {Request(1, "user", <<>>)} ELSE {}
           n == Cardinality(user)
       IN /\ userData' = stored
          /\ inflight' = user \cup {Request(n + 1, "list", <<>>)}
          /\ issued' = n + 1
    /\ loading' = TRUE
    /\ UNCHANGED <<page, companies, selectedCompany, editModal, users,
                   selectedUser, viewModal, deleteModal>>
    /\ response' = <<>>
    /\ UNCHANGED clickedUser
    /\ UNCHANGED latestList
    /\ UNCHANGED otherVars

\* fetchUserData after its await
FetchUserDataResponse(req, outcome, dept) ==
    /\ req \in inflight
    /\ req.kind = "user"
    /\ userData' = IF outcome = "code 1" THEN <<[departmentId |-> dept]>> ELSE userData
    /\ inflight' = inflight \ {req}
    /\ response' = Answer(req, outcome, <<>>)
    /\ UNCHANGED <<page, companies, selectedCompany, editModal, users,
                   selectedUser, viewModal, deleteModal, issued, loading>>
    /\ UNCHANGED clickedUser
    /\ UNCHANGED latestList
    /\ UNCHANGED otherVars

-----------------------------------------------------------------------------
(* The company page *)

\* if (loading) return the spinner; a modal shows with its flag and a selection
CompanyEditModalShown ==
    page = "company" /\ ~loading /\ editModal /\ selectedCompany # <<>>

CompanyDeleteModalShown ==
    page = "company" /\ ~loading /\ deleteModal /\ selectedCompany # <<>>

\* the delete modal is rendered after the edit modal and lies over it
CompanyEditModalOnTop == CompanyEditModalShown /\ ~CompanyDeleteModalShown

\* the header and the table can be clicked: no modal lies over them
CompanyTableShown ==
    /\ page = "company"
    /\ ~loading
    /\ ~CompanyEditModalShown
    /\ ~CompanyDeleteModalShown

\* the Actions column without the role check
CompanyActionsRenderedForAll == page = "company" /\ ~loading

\* the Actions column, with the edit and delete button of each row:
\* {isSuperAdmin && (...)}
CompanyActionsRendered == page = "company" /\ ~loading /\ isSuperAdmin

\* fetchCompanies after its await, with setLoading(false) in the try block
FetchCompaniesResponseNoFinally(req, outcome, payload) ==
    /\ page = "company"
    /\ req \in inflight
    /\ req.kind = "list"
    /\ companies' = IF outcome = "code 1" THEN payload ELSE companies
    /\ loading' = IF outcome = "threw" THEN loading ELSE FALSE
    /\ inflight' = inflight \ {req}
    /\ response' = Answer(req, outcome, IF outcome = "code 1" THEN payload ELSE <<>>)
    /\ UNCHANGED <<page, selectedCompany, editModal, users, selectedUser,
                   viewModal, deleteModal, userData, issued>>
    /\ UNCHANGED clickedUser
    /\ latestList' = IF outcome = "code 1"
                         /\ (latestList = <<>> \/ latestList[1].seq < req.seq)
                      THEN <<[seq |-> req.seq, data |-> payload]>>
                      ELSE latestList
    /\ UNCHANGED otherVars

\* fetchCompanies after its await
FetchCompaniesResponse(req, outcome, payload) ==
    /\ page = "company"
    /\ req \in inflight
    /\ req.kind = "list"
    /\ companies' = IF outcome = "code 1" THEN payload ELSE companies
    /\ loading' = FALSE
    /\ inflight' = inflight \ {req}
    /\ response' = Answer(req, outcome, IF outcome = "code 1" THEN payload ELSE <<>>)
    /\ UNCHANGED <<page, selectedCompany, editModal, users, selectedUser,
                   viewModal, deleteModal, userData, issued>>
    /\ UNCHANGED clickedUser
    /\ latestList' = IF outcome = "code 1"
                         /\ (latestList = <<>> \/ latestList[1].seq < req.seq)
                      THEN <<[seq |-> req.seq, data |-> payload]>>
                      ELSE latestList
    /\ UNCHANGED otherVars

\* handleRefresh: fetchCompanies up to its await
HandleRefresh ==
    /\ CompanyTableShown
    /\ CanIssue(1)
    /\ loading' = TRUE
    /\ inflight' = inflight \cup {Request(issued + 1, "list", <<>>)}
    /\ issued' = issued + 1
    /\ UNCHANGED <<page, companies, selectedCompany, editModal, users,
                   selectedUser, viewModal, deleteModal, userData>>
    /\ response' = <<>>
    /\ UNCHANGED clickedUser
    /\ UNCHANGED latestList
    /\ UNCHANGED otherVars

\* the edit button of a row, rendered for the SuperAdmin only
HandleEditClick(company) ==
    /\ CompanyTableShown
    /\ CompanyActionsRendered
    /\ company \in Rows(companies)
    /\ IF isSuperAdmin
       THEN /\ selectedCompany' = <<company>>
            /\ editModal' = TRUE
       ELSE UNCHANGED <<selectedCompany, editModal>>
    /\ UNCHANGED <<page, companies, users, selectedUser, viewModal, deleteModal,
                   userData, inflight, issued, loading>>
    /\ response' = <<>>
    /\ UNCHANGED clickedUser
    /\ UNCHANGED latestList
    /\ UNCHANGED otherVars

\* an input of the edit modal that writes into the selected object, which is
\* the object of the list: selectedCompany.name = value
EditFieldInPlace(name) ==
    /\ CompanyEditModalOnTop
    /\ selectedCompany' = <<[selectedCompany[1] EXCEPT !.name = name]>>
    /\ companies' = [i \in 1 .. Len(companies) |->
                         IF companies[i] = selectedCompany[1]
                         THEN [companies[i] EXCEPT !.name = name]
                         ELSE companies[i]]
    /\ UNCHANGED <<page, editModal, users, selectedUser, viewModal,
                   deleteModal, userData, inflight, issued, loading>>
    /\ response' = <<>>
    /\ UNCHANGED clickedUser
    /\ UNCHANGED latestList
    /\ UNCHANGED otherVars

\* an input of the edit modal: setSelectedCompany({...selectedCompany, name})
EditField(name) ==
    /\ CompanyEditModalOnTop
    /\ selectedCompany' = <<[selectedCompany[1] EXCEPT !.name = name]>>
    /\ UNCHANGED <<page, companies, editModal, users, selectedUser, viewModal,
                   deleteModal, userData, inflight, issued, loading>>
    /\ response' = <<>>
    /\ UNCHANGED clickedUser
    /\ UNCHANGED latestList
    /\ UNCHANGED otherVars

\* Cancel or the close button of the edit modal
EditCancel ==
    /\ CompanyEditModalOnTop
    /\ editModal' = FALSE
    /\ UNCHANGED <<page, companies, selectedCompany, users, selectedUser,
                   viewModal, deleteModal, userData, inflight, issued, loading>>
    /\ response' = <<>>
    /\ UNCHANGED clickedUser
    /\ UNCHANGED latestList
    /\ UNCHANGED otherVars

\* handleUpdate up to its await: the Update button of the edit modal
HandleUpdate ==
    /\ CompanyEditModalOnTop
    /\ CanIssue(2)
    /\ IF isSuperAdmin
       THEN /\ inflight' = inflight \cup {Request(issued + 1, "update", selectedCompany)}
            /\ issued' = issued + 1
       ELSE UNCHANGED <<inflight, issued>>
    /\ UNCHANGED <<page, companies, selectedCompany, editModal, users,
                   selectedUser, viewModal, deleteModal, userData, loading>>
    /\ response' = <<>>
    /\ UNCHANGED clickedUser
    /\ UNCHANGED latestList
    /\ UNCHANGED otherVars

\* handleUpdate after its await, without the call of fetchCompanies
HandleUpdateResponseNoFetch(req, outcome) ==
    /\ page = "company"
    /\ req \in inflight
    /\ req.kind = "update"
    /\ editModal' = IF outcome = "code 1" THEN FALSE ELSE editModal
    /\ inflight' = inflight \ {req}
    /\ response' = Answer(req, outcome, <<>>)
    /\ UNCHANGED <<page, companies, selectedCompany, users, selectedUser,
                   viewModal, deleteModal, userData, issued, loading>>
    /\ UNCHANGED clickedUser
    /\ UNCHANGED latestList
    /\ UNCHANGED otherVars

\* handleUpdate after its await: on code 1 close the modal and fetchCompanies()
HandleUpdateResponse(req, outcome) ==
    /\ page = "company"
    /\ req \in inflight
    /\ req.kind = "update"
    /\ IF outcome = "code 1"
       THEN /\ editModal' = FALSE
            /\ loading' = TRUE
            /\ inflight' = (inflight \ {req}) \cup {Request(issued + 1, "list", <<>>)}
            /\ issued' = issued + 1
       ELSE /\ inflight' = inflight \ {req}
            /\ UNCHANGED <<editModal, loading, issued>>
    /\ response' = Answer(req, outcome, <<>>)
    /\ UNCHANGED <<page, companies, selectedCompany, users, selectedUser,
                   viewModal, deleteModal, userData>>
    /\ UNCHANGED clickedUser
    /\ UNCHANGED latestList
    /\ UNCHANGED otherVars

\* the delete button of a row, rendered for the SuperAdmin only
HandleDeleteClick(company) ==
    /\ CompanyTableShown
    /\ CompanyActionsRendered
    /\ company \in Rows(companies)
    /\ IF isSuperAdmin
       THEN /\ selectedCompany' = <<company>>
            /\ deleteModal' = TRUE
       ELSE UNCHANGED <<selectedCompany, deleteModal>>
    /\ UNCHANGED <<page, companies, editModal, users, selectedUser, viewModal,
                   userData, inflight, issued, loading>>
    /\ response' = <<>>
    /\ UNCHANGED clickedUser
    /\ UNCHANGED latestList
    /\ UNCHANGED otherVars

\* Cancel of the company delete modal
CompanyDeleteCancel ==
    /\ CompanyDeleteModalShown
    /\ deleteModal' = FALSE
    /\ UNCHANGED <<page, companies, selectedCompany, editModal, users,
                   selectedUser, viewModal, userData, inflight, issued, loading>>
    /\ response' = <<>>
    /\ UNCHANGED clickedUser
    /\ UNCHANGED latestList
    /\ UNCHANGED otherVars

\* handleDelete up to its await: the Delete button of the delete modal
HandleDelete ==
    /\ CompanyDeleteModalShown
    /\ CanIssue(1)
    /\ IF isSuperAdmin
       THEN /\ inflight' = inflight \cup {Request(issued + 1, "delete", selectedCompany)}
            /\ issued' = issued + 1
       ELSE UNCHANGED <<inflight, issued>>
    /\ UNCHANGED <<page, companies, selectedCompany, editModal, users,
                   selectedUser, viewModal, deleteModal, userData, loading>>
    /\ response' = <<>>
    /\ UNCHANGED clickedUser
    /\ UNCHANGED latestList
    /\ UNCHANGED otherVars

\* handleDelete after its await: on code 1 filter the list; finally close
HandleDeleteResponse(req, outcome) ==
    /\ page = "company"
    /\ req \in inflight
    /\ req.kind = "delete"
    /\ companies' = IF outcome = "code 1"
                    THEN FilterOutId(companies, req.arg[1].id) ELSE companies
    /\ deleteModal' = FALSE
    /\ selectedCompany' = <<>>
    /\ inflight' = inflight \ {req}
    /\ response' = Answer(req, outcome, <<>>)
    /\ UNCHANGED <<page, editModal, users, selectedUser, viewModal, userData,
                   issued, loading>>
    /\ UNCHANGED clickedUser
    /\ latestList' = IF outcome = "code 1" /\ latestList # <<>>
                      THEN <<[latestList[1] EXCEPT
                                 !.data = FilterOutId(@, req.arg[1].id)]>>
                      ELSE latestList
    /\ UNCHANGED otherVars

-----------------------------------------------------------------------------
(* The user page *)

UserViewModalShown ==
    page = "user" /\ ~loading /\ viewModal /\ selectedUser # <<>>

\* the delete modal is rendered after the view modal and lies over it
UserDeleteModalShown ==
    page = "user" /\ ~loading /\ deleteModal /\ selectedUser # <<>>

UserTableShown ==
    /\ page = "user"
    /\ ~loading
    /\ ~UserViewModalShown
    /\ ~UserDeleteModalShown

\* fetchUsers after its await
FetchUsersResponse(req, outcome, payload) ==
    /\ page = "user"
    /\ req \in inflight
    /\ req.kind = "list"
    /\ users' = IF outcome \in {"code 1", "code 200"} THEN payload ELSE users
    /\ loading' = FALSE
    /\ inflight' = inflight \ {req}
    /\ response' = Answer(req, outcome,
                           IF outcome \in {"code 1", "code 200"} THEN payload ELSE <<>>)
    /\ UNCHANGED <<page, companies, selectedCompany, editModal, selectedUser,
                   viewModal, deleteModal, userData, issued>>
    /\ UNCHANGED clickedUser
    /\ UNCHANGED latestList
    /\ UNCHANGED otherVars

\* the Refresh button: fetchUsers up to its await
RefreshUsers ==
    /\ UserTableShown
    /\ CanIssue(1)
    /\ loading' = TRUE
    /\ inflight' = inflight \cup {Request(issued + 1, "list", <<>>)}
    /\ issued' = issued + 1
    /\ UNCHANGED <<page, companies, selectedCompany, editModal, users,
                   selectedUser, viewModal, deleteModal, userData>>
    /\ response' = <<>>
    /\ UNCHANGED clickedUser
    /\ UNCHANGED latestList
    /\ UNCHANGED otherVars

\* viewUser(user.id) up to its await: the view button of a row
ViewUser(user) ==
    /\ UserTableShown
    /\ CanIssue(1)
    /\ user \in Rows(users)
    /\ inflight' = inflight \cup {Request(issued + 1, "view", <<user>>)}
    /\ issued' = issued + 1
    /\ UNCHANGED <<page, companies, selectedCompany, editModal, users,
                   selectedUser, viewModal, deleteModal, userData, loading>>
    /\ response' = <<>>
    /\ UNCHANGED clickedUser
    /\ UNCHANGED latestList
    /\ UNCHANGED otherVars

\* viewUser after its await: on code 1 select the answer and open the modal
ViewUserResponse(req, outcome, answer) ==
    /\ page = "user"
    /\ req \in inflight
    /\ req.kind = "view"
    /\ answer.id = req.arg[1].id
    /\ IF outcome = "code 1"
       THEN /\ selectedUser' = <<answer>>
            /\ viewModal' = TRUE
       ELSE UNCHANGED <<selectedUser, viewModal>>
    /\ response' = Answer(req, outcome, IF outcome = "code 1" THEN <<answer>> ELSE <<>>)
    /\ inflight' = inflight \ {req}
    /\ UNCHANGED <<page, companies, selectedCompany, editModal, users,
                   deleteModal, userData, issued, loading>>
    /\ UNCHANGED clickedUser
    /\ UNCHANGED latestList
    /\ UNCHANGED otherVars

\* Close or the close button of the view modal
ViewClose ==
    /\ UserViewModalShown
    /\ ~UserDeleteModalShown
    /\ viewModal' = FALSE
    /\ UNCHANGED <<page, companies, selectedCompany, editModal, users,
                   selectedUser, deleteModal, userData, inflight, issued, loading>>
    /\ response' = <<>>
    /\ UNCHANGED clickedUser
    /\ UNCHANGED latestList
    /\ UNCHANGED otherVars

\* the delete button of a row: setSelectedUser(user); setDeleteModal(true)
UserDeleteClick(user) ==
    /\ UserTableShown
    /\ user \in Rows(users)
    /\ selectedUser' = <<user>>
    /\ deleteModal' = TRUE
    /\ UNCHANGED <<page, companies, selectedCompany, editModal, users, viewModal,
                   userData, inflight, issued, loading>>
    /\ response' = <<>>
    /\ clickedUser' = <<user>>
    /\ UNCHANGED latestList
    /\ UNCHANGED otherVars

\* Cancel or the close button of the user delete modal
UserDeleteCancel ==
    /\ UserDeleteModalShown
    /\ deleteModal' = FALSE
    /\ UNCHANGED <<page, companies, selectedCompany, editModal, users,
                   selectedUser, viewModal, userData, inflight, issued, loading>>
    /\ response' = <<>>
    /\ clickedUser' = <<>>
    /\ UNCHANGED latestList
    /\ UNCHANGED otherVars

\* deleteUser up to its await: the Delete button of the delete modal
DeleteUser ==
    /\ UserDeleteModalShown
    /\ CanIssue(1)
    /\ inflight' = inflight \cup {Request(issued + 1, "delete", selectedUser)}
    /\ issued' = issued + 1
    /\ UNCHANGED <<page, companies, selectedCompany, editModal, users,
                   selectedUser, viewModal, deleteModal, userData, loading>>
    /\ response' = <<>>
    /\ UNCHANGED clickedUser
    /\ UNCHANGED latestList
    /\ UNCHANGED otherVars

\* deleteUser after its await: on code 1 filter the list and close the modal
DeleteUserResponse(req, outcome) ==
    /\ page = "user"
    /\ req \in inflight
    /\ req.kind = "delete"
    /\ IF outcome = "code 1"
       THEN /\ users' = FilterOutId(users, req.arg[1].id)
            /\ deleteModal' = FALSE
            /\ selectedUser' = <<>>
       ELSE UNCHANGED <<users, deleteModal, selectedUser>>
    /\ inflight' = inflight \ {req}
    /\ response' = Answer(req, outcome, <<>>)
    /\ UNCHANGED <<page, companies, selectedCompany, editModal, viewModal,
                   userData, issued, loading>>
    /\ clickedUser' = IF outcome = "code 1" THEN <<>> ELSE clickedUser
    /\ UNCHANGED latestList
    /\ UNCHANGED otherVars

-----------------------------------------------------------------------------
(* The two pages as one state machine: the router mounts one of them *)

NextPages ==
    \/ \E stored \in StoredUserData, token \in BOOLEAN : MountPage(stored, token)
    \/ \E req \in inflight, outcome \in Outcomes, dept \in Departments :
           FetchUserDataResponse(req, outcome, dept)
    \/ \E req \in inflight, outcome \in Outcomes, payload \in CompanyLists :
           FetchCompaniesResponse(req, outcome, payload)
    \/ HandleRefresh
    \/ \E company \in Records : HandleEditClick(company)
    \/ \E name \in Names : EditField(name)
    \/ EditCancel
    \/ HandleUpdate
    \/ \E req \in inflight, outcome \in Outcomes : HandleUpdateResponse(req, outcome)
    \/ \E company \in Records : HandleDeleteClick(company)
    \/ CompanyDeleteCancel
    \/ HandleDelete
    \/ \E req \in inflight, outcome \in Outcomes : HandleDeleteResponse(req, outcome)
    \/ \E req \in inflight, outcome \in Outcomes, payload \in UserLists :
           FetchUsersResponse(req, outcome, payload)
    \/ RefreshUsers
    \/ \E user \in UserRecords : ViewUser(user)
    \/ \E req \in inflight, outcome \in Outcomes, answer \in UserRecords :
           ViewUserResponse(req, outcome, answer)
    \/ ViewClose
    \/ \E user \in UserRecords : UserDeleteClick(user)
    \/ UserDeleteCancel
    \/ DeleteUser
    \/ \E req \in inflight, outcome \in Outcomes : DeleteUserResponse(req, outcome)

SpecPages == InitPages /\ [][NextPages]_vars

-----------------------------------------------------------------------------
(* The three pages with every issued request answered in the end *)

InitAnswered == Init \/ InitPages

\* some answer to the request numbered n of a page is delivered
PageAnswer(n) ==
    \E req \in inflight, outcome \in Outcomes :
        /\ req.seq = n
        /\ \/ \E dept \in Departments : FetchUserDataResponse(req, outcome, dept)
           \/ \E payload \in CompanyLists : FetchCompaniesResponse(req, outcome, payload)
           \/ HandleUpdateResponse(req, outcome)
           \/ HandleDeleteResponse(req, outcome)
           \/ \E payload \in UserLists : FetchUsersResponse(req, outcome, payload)
           \/ \E answer \in UserRecords : ViewUserResponse(req, outcome, answer)
           \/ DeleteUserResponse(req, outcome)

\* some answer to the ticket-count request of the dashboard is delivered
DashboardAnswer ==
    /\ page = "dashboard"
    /\ \/ \E payload \in DashPayloads : FetchSuccess(payload)
       \/ \E payload \in DashPayloads : FetchRejected(payload)
       \/ FetchThrows

NextAnswered ==
    \/ page = "dashboard" /\ MountEffect
    \/ DashboardAnswer
    \/ \E s \in Statuses : page = "dashboard" /\ ClickSegment(s)
    \/ \E s \in Statuses : page = "dashboard" /\ ClickCard(s)
    \/ \E s \in Statuses : page = "dashboard" /\ MouseMove(s)
    \/ \E s \in Statuses : page = "dashboard" /\ MouseLeave(s)
    \/ \E stored \in StoredUserData, token \in BOOLEAN : MountPage(stored, token)
    \/ \E n \in 1 .. MaxRequests : PageAnswer(n)
    \/ HandleRefresh
    \/ \E company \in Records : HandleEditClick(company)
    \/ \E name \in Names : EditField(name)
    \/ EditCancel
    \/ HandleUpdate
    \/ \E company \in Records : HandleDeleteClick(company)
    \/ CompanyDeleteCancel
    \/ HandleDelete
    \/ RefreshUsers
    \/ \E user \in UserRecords : ViewUser(user)
    \/ ViewClose
    \/ \E user \in UserRecords : UserDeleteClick(user)
    \/ UserDeleteCancel
    \/ DeleteUser

\* every issued request is answered in the end: axios settles each promise
SpecAnswered ==
    /\ InitAnswered
    /\ [][NextAnswered]_vars
    /\ WF_vars(DashboardAnswer)
    /\ \A n \in 1 .. MaxRequests : WF_vars(PageAnswer(n))

-----------------------------------------------------------------------------
(* Claims about the company page and the user page *)

\* this step delivers the answer with code 1 to a request of the kind
AnsweredWithCode1(kind) ==
    /\ response' # <<>>
    /\ response'[1].req \in inflight
    /\ response'[1].req.kind = kind
    /\ response'[1].outcome = "code 1"

\* this step sends a new list request and hides the list until it is answered
ListRequested ==
    /\ issued' = issued + 1
    /\ \E r \in inflight' \ inflight : r.kind = "list" /\ r.seq = issued'
    /\ loading'

\* this step sends nothing
NothingRequested ==
    /\ issued' = issued
    /\ inflight' \subseteq inflight

\* the list without the records of the id, in the order it had
WithoutId(list, id) == SelectSeq(list, LAMBDA r : r.id # id)

C20_MutationStep ==
    /\ AnsweredWithCode1("update") => ListRequested
    /\ AnsweredWithCode1("delete") =>
           /\ NothingRequested
           /\ companies' = IF page = "company"
                           THEN WithoutId(companies, response'[1].req.arg[1].id)
                           ELSE companies
           /\ users' = IF page = "user"
                       THEN WithoutId(users, response'[1].req.arg[1].id)
                       ELSE users

C20_DeleteAnswered ==
    /\ response # <<>>
    /\ response[1].req.kind = "delete"
    /\ response[1].outcome = "code 1"
    /\ inflight = {}
    /\ ~loading

\* the loaded user data has departmentId equal to 1
LoadedSuperAdmin ==
    userData # <<>> /\ userData[1].departmentId = 1

C21_State ==
    page = "company" =>
        /\ CompanyActionsRendered => LoadedSuperAdmin
        /\ (CompanyEditModalShown \/ CompanyDeleteModalShown) => LoadedSuperAdmin
        /\ (editModal \/ deleteModal) => LoadedSuperAdmin
        /\ \A r \in inflight : r.kind \in {"update", "delete"} => LoadedSuperAdmin

C21_Step ==
    page = "company" =>
        /\ (editModal' /\ ~editModal) => LoadedSuperAdmin
        /\ (deleteModal' /\ ~deleteModal) => LoadedSuperAdmin
        /\ \A r \in inflight' \ inflight :
               r.kind \in {"update", "delete"} => LoadedSuperAdmin

\* C21: on the company page the edit and delete controls are rendered, the
\* edit and delete modals are opened and shown, and a company update or delete
\* request is sent only in states where the loaded user data has departmentId
\* 1; with any other user data, or none loaded yet, none of these happens.
C21_RoleGating == []C21_State /\ [][C21_Step]_vars

\* the SuperAdmin has a company update in flight, and the controls are rendered
C21_Witness ==
    /\ page = "company"
    /\ LoadedSuperAdmin
    /\ CompanyActionsRendered
    /\ \E r \in inflight : r.kind = "update"

\* a user of another department sees the list of companies
C21_OtherDepartment ==
    /\ page = "company"
    /\ ~loading
    /\ companies # <<>>
    /\ userData # <<>>
    /\ ~LoadedSuperAdmin

C23_DeleteStep ==
    page = "user" =>
        \A r \in inflight' \ inflight : r.kind = "delete" => r.arg = clickedUser

\* C23 as stated: the user whose id is sent in a delete request is the user
\* whose delete button was most recently clicked, and the confirmation modal
\* names that user, also when a view-user answer arrives after the click.
C23_DeleteTargetIsClickedUser ==
    [](UserDeleteModalShown => selectedUser = clickedUser) /\ [][C23_DeleteStep]_vars

\* a delete request for a user other than the one whose delete button was
\* clicked is in flight
C23_WrongUserDeleted ==
    /\ page = "user"
    /\ clickedUser # <<>>
    /\ \E r \in inflight : r.kind = "delete" /\ r.arg[1].id # clickedUser[1].id

\* C24 as stated: on the company page, once no request is in flight the
\* displayed list is the payload of the most recently issued successful list
\* request (less the deletions confirmed locally), and loading is true in
\* every state where a list request is in flight.
C24_ListFreshness ==
    page = "company" =>
        /\ (inflight = {} /\ latestList # <<>>) => companies = latestList[1].data
        /\ (\E r \in inflight : r.kind = "list") => loading

\* no request is in flight and the list shown is not the payload of the list
\* request issued last
C24_StaleListShown ==
    /\ page = "company"
    /\ inflight = {}
    /\ ~loading
    /\ latestList # <<>>
    /\ companies # latestList[1].data

\* a list request is in flight and the list is shown, not the spinner
C24_ShownWhileRequested ==
    /\ page = "company"
    /\ \E r \in inflight : r.kind = "list"
    /\ ~loading

\* this step delivers an answer other than code 1 to a request of the kind
AnsweredWithFailure(kind) ==
    /\ response' # <<>>
    /\ response'[1].req \in inflight
    /\ response'[1].req.kind = kind
    /\ response'[1].outcome # "code 1"

\* the list the mounted page displays
DisplayedList == IF page = "company" THEN companies ELSE users

\* list is sub with records removed and the others in place and in order
RECURSIVE RemainsInOrder(_, _)
RemainsInOrder(sub, list) ==
    IF sub = <<>> THEN TRUE
    ELSE IF list = <<>> THEN FALSE
    ELSE IF sub[1] = list[1] THEN RemainsInOrder(Tail(sub), Tail(list))
    ELSE RemainsInOrder(sub, Tail(list))

C25_DeleteStep ==
    /\ AnsweredWithCode1("delete") =>
           LET id == response'[1].req.arg[1].id
           IN /\ Rows(DisplayedList') = { r \in Rows(DisplayedList) : r.id # id }
              /\ RemainsInOrder(DisplayedList', DisplayedList)
              /\ Len(DisplayedList') =
                     Len(DisplayedList) - Len(FilterKeepId(DisplayedList, id))
    /\ AnsweredWithFailure("delete") => DisplayedList' = DisplayedList
    /\ response' = <<>> => DisplayedList' = DisplayedList

LoadingForRequest ==
    /\ loading
    /\ IF page = "dashboard" THEN fetch = "inflight"
       ELSE \E r \in inflight : r.kind = "list"

\* C26: on the dashboard, the user page and the company page, every list or
\* count request that set loading to true is followed by loading being false,
\* whether the request succeeds, returns an error code or throws, provided
\* every issued request is answered in the end.
C26_LoadingAlwaysEnds == LoadingForRequest ~> ~loading

\* a list request threw and loading is false again
C26_Witness ==
    /\ page \in {"company", "user"}
    /\ response # <<>>
    /\ response[1].req.kind = "list"
    /\ response[1].outcome = "threw"
    /\ ~loading

\* the count request of the dashboard threw and loading is false again
C26_DashboardThrew ==
    /\ page = "dashboard"
    /\ fetch = "settled"
    /\ response # <<>>
    /\ response[1].outcome = "threw"
    /\ ~loading

\* a step of the edit modal that is no answer and sends nothing: the modal
\* is opened, a field is changed, or the modal is cancelled
EditModalStep ==
    /\ page = "company"
    /\ response' = <<>>
    /\ inflight' = inflight
    /\ deleteModal' = deleteModal
    /\ CompanyEditModalOnTop \/ (~CompanyEditModalShown /\ CompanyEditModalShown')

C27_Step ==
    /\ EditModalStep =>
           /\ companies' = companies
           /\ UNCHANGED <<page, users, selectedUser, viewModal, deleteModal,
                          userData, inflight, issued, loading, latestList>>
    /\ (page = "company" /\ companies' # companies) =>
           \/ AnsweredWithCode1("list")
           \/ AnsweredWithCode1("delete")
    /\ (~CompanyEditModalShown /\ CompanyEditModalShown') =>
           selectedCompany'[1] \in Rows(companies')

\* C27: opening the edit modal, changing a field in it and cancelling change
\* only selectedCompany and editModal and leave the companies list as it is;
\* the list changes only when a list request is answered with code 1 or a
\* delete is confirmed; and the edit modal, when it opens, shows the values of
\* a row of the list, not those of edits cancelled earlier.
C27_EditIsolated == [][C27_Step]_vars

\* an edit was cancelled: the edited values differ from the row of the list,
\* which is as it was
C27_Witness ==
    /\ page = "company"
    /\ ~loading
    /\ ~editModal
    /\ response = <<>>
    /\ inflight = {}
    /\ selectedCompany # <<>>
    /\ selectedCompany[1] \notin Rows(companies)
    /\ \E r \in Rows(companies) : r.id = selectedCompany[1].id
    /\ latestList # <<>>
    /\ companies = latestList[1].data

====
